---- MODULE Spec2Model ----
(***************************************************************************)
(* Model of the query-orchestration core of the RAG system:                *)
(*   components/semantic_cache.py  SemanticCache (get, put, get_stats,     *)
(*                                 clear_cache) and its temporal guard     *)
(*   setup_supabase.py             the SQL functions match_cache_entry and *)
(*                                 match_documents                         *)
(*   utils/embedding_client.py     NomicAIClient.encode                    *)
(*   components/router.py          AgenticRouter.route_query               *)
(*   components/vector_store.py    VectorStore.search                      *)
(*   components/web_search.py      BraveWebSearcher.search                 *)
(*   pipeline/rag_pipeline.py      RAGPipeline.search and answer           *)
(*                                 generation                              *)
(*                                                                         *)
(* Text.  A query is a sequence of lexical atoms: a word in a given letter *)
(* case ("apple", "Apple"), a four-digit number ("2022") or one blank      *)
(* (" ").  str.lower, str.strip, the regular expression \b(19\d\d|20\d\d)\b*)
(* and the substring tests of the router are computed on these sequences.  *)
(*                                                                         *)
(* Numbers.  Similarities and scores are kept exact: a cosine similarity   *)
(* is the pair <<dot^2, |a|^2 * |b|^2>> (all vectors have non-negative     *)
(* components), thresholds and retrieval scores are integer percentages.   *)
(***************************************************************************)
EXTENDS Integers, Sequences, FiniteSets, TLC

VARIABLES
    cache,                 \* table cache_entries: query_hash -> row
    similarity_threshold,  \* SemanticCache.similarity_threshold, in percent
    now_year,              \* datetime.now().year
    last,                  \* the last call made on the system and its outcome
    lastPutKey,            \* history: query_hash of the latest put since the last clear
    hitsSincePut,          \* history: hits served from lastPutKey since that put
    in_flight              \* the cache calls of two sessions that are under way

vars == <<cache, similarity_threshold, now_year, last, lastPutKey, hitsSincePut, in_flight>>

None == "none"

----------------------------------------------------------------------------
(* Bounds of the model *)

\* most rows the cache table holds
MaxEntries == 2

\* largest hit_count a row reaches
MaxHitCount == 3

----------------------------------------------------------------------------
(* Text *)

Blank == " "

YearAtoms == {"2022", "2023"}

\* the calendar years the clock shows, in order
Years == {2023, 2024}

\* str(year)
YearStr(y) == CASE y = 2022 -> "2022" [] y = 2023 -> "2023" [] OTHER -> "other year"

\* int(year) for a matched year token
YearValue(a) == CASE a = "2022" -> 2022 [] a = "2023" -> 2023 [] OTHER -> 0

\* str.lower on one atom
LowerAtom(a) == CASE a = "Apple" -> "apple" [] a = "Tesla" -> "tesla" [] OTHER -> a

\* str.lower
Lower(q) == [i \in DOMAIN q |-> LowerAtom(q[i])]

RECURSIVE LStrip(_)
LStrip(q) == IF q # <<>> /\ Head(q) = Blank THEN LStrip(Tail(q)) ELSE q

RECURSIVE RStrip(_)
RStrip(q) ==
    IF q # <<>> /\ q[Len(q)] = Blank THEN RStrip(SubSeq(q, 1, Len(q) - 1)) ELSE q

\* str.strip
Strip(q) == RStrip(LStrip(q))

\* a faulty variant of the hash that keeps the letter case
QueryHashKeepingCase(q) == Strip(q)

\* SemanticCache._get_query_hash: md5 of the lower-cased, stripped text (md5 is
\* kept collision free: the key is the normalised text itself)
QueryHash(q) == Strip(Lower(q))

\* \b at the two ends of the token at position i: the neighbour is a blank or
\* the end of the text (every other atom is made of word characters)
WordBoundaryAround(q, i) ==
    /\ (i = 1 \/ q[i - 1] = Blank)
    /\ (i = Len(q) \/ q[i + 1] = Blank)

\* set(re.findall(r"\b(19\d\d|20\d\d)\b", query))
YearsIn(q) == {q[i] : i \in {j \in DOMAIN q : q[j] \in YearAtoms /\ WordBoundaryAround(q, j)}}

\* s in a, for one token a and the text s of a year: the token is that text or
\* a longer number holding it ("20231" holds "2023")
AtomContains(a, s) == a = s \/ (a = "20231" /\ s = "2023")

\* s in text, for the text s of a year
ContainsText(text, s) == \E i \in DOMAIN text : AtomContains(text[i], s)

\* the query texts the cache's operations are called with: a query, the same
\* query in another letter case and with a trailing blank, the same query with
\* two blanks inside, the query about another year, the query without a year,
\* a less similar query about that other year
Queries ==
    { <<"apple", " ", "2022">>,
      <<"Apple", " ", "2022", " ">>,
      <<"apple", " ", " ", "2022">>,
      <<"apple", " ", "2023">>,
      <<"apple">>,
      <<"apple", " ", "revenue", " ", "2023">> }

\* the response texts put is called with
Responses == {"r1", "r2"}

----------------------------------------------------------------------------
(* Embeddings and cosine similarity *)

ZeroVector == <<0, 0>>

\* the vector the embedding provider computes for one token; blanks and letter
\* case do not reach the provider's tokens
AtomVector(a) ==
    CASE LowerAtom(a) = "apple" -> <<5, 0>>
      [] LowerAtom(a) = "tesla" -> <<1, 5>>
      [] a = "latest" -> <<1, 0>>
      [] a = "company" -> <<0, 1>>
      [] a = "revenue" -> <<0, 3>>
      [] a = "profit" -> <<0, 1>>
      [] a = "2022" -> <<0, 1>>
      [] a = "2023" -> <<0, 2>>
      [] OTHER -> <<0, 0>>

RECURSIVE SumVectors(_)
SumVectors(q) ==
    IF q = <<>> THEN ZeroVector
    ELSE LET r == SumVectors(Tail(q)) v == AtomVector(Head(q))
         IN <<v[1] + r[1], v[2] + r[2]>>

\* NomicAIClient.encode followed by SemanticCache._encode_query, for a provider
\* that answers: a deterministic function of the text.  (Every query text of
\* the model holds a word, so no vector is zero.)
Encode(q) == SumVectors(q)

Dot(a, b) == a[1] * b[1] + a[2] * b[2]

\* 1 - (a <=> b) of pgvector, squared, as numerator and denominator
Similarity(a, b) == <<Dot(a, b) * Dot(a, b), Dot(a, a) * Dot(b, b)>>

\* s >= t for two similarities
SimGE(s, t) == s[1] * t[2] >= t[1] * s[2]

\* similarity >= similarity_threshold, the threshold in percent
AtLeastThreshold(s, thr) == s[1] * 10000 >= thr * thr * s[2]

----------------------------------------------------------------------------
(* The cache table and the calls on it *)

NoKey == <<>>

NoStats == [total_entries |-> 0, total_hits |-> 0, hit_rate |-> <<0, 1>>]

\* the response envelope of search (the hit envelope has no web_results key:
\* reading it gives None; response_time and cache_debug are left out)
NoEnvelope ==
    [ answer |-> None, sources |-> <<>>, cache_hit |-> FALSE,
      routing_decision |-> None, web_search_used |-> FALSE, web_results |-> None ]

\* the query texts route_query is called with: no keyword; a web keyword; three
\* local keywords and a year; one local keyword and a year; one local and one
\* web keyword; one local keyword and a five-digit number
RouterQueries ==
    { <<"apple">>,
      <<"apple", " ", "latest">>,
      <<"company", " ", "revenue", " ", "profit", " ", "2023">>,
      <<"company", " ", "2023">>,
      <<"balance", " ", "sheet", " ", "news">>,
      <<"company", " ", "20231">> }

\* what one call of route_query logged: the year of the clock, the two scores
\* and the decision (NoRouting: the text was not routed yet)
NoRouting ==
    [ year |-> 0, decision |-> None, local_score |-> 0, web_score |-> 0 ]

\* a call record: which call was made, with what, and what came back.  raised
\* tells that the call ended with an exception instead of a return value.
\* routed keeps, for each text, what the latest route_query of it logged, and
\* routed_before what the call before that logged.
NoCall ==
    [ op |-> "init", query |-> <<>>, arg |-> None, raised |-> FALSE,
      hit |-> FALSE, response |-> None, matched |-> NoKey, candidate |-> NoKey,
      stats |-> NoStats, ok |-> FALSE, fault |-> None, replaced |-> 0,
      allow_web |-> FALSE, calls |-> <<>>, envelope |-> NoEnvelope,
      other |-> <<>>, swapped |-> FALSE,
      table |-> <<>>, top_k |-> 0, results |-> <<>>,
      api_key |-> TRUE, context |-> [docs |-> <<>>, web |-> ""],
      lines |-> <<>>, facts |-> <<>>,
      routed |-> [q \in RouterQueries |-> NoRouting], routed_before |-> NoRouting ]

\* the record put builds (the timestamp column is left out: nothing reads it)
CacheEntry(q, emb, r) ==
    [query |-> q, query_embedding |-> emb, response |-> r, hit_count |-> 1]

\* a faulty variant of the upsert that keeps the query text of a row it overwrites
UpsertKeepingQueryText(c, key, row) ==
    [k \in DOMAIN c \cup {key} |->
       IF k # key THEN c[k]
       ELSE IF key \in DOMAIN c THEN [row EXCEPT !.query = c[key].query] ELSE row]

\* table.upsert(record) on the primary key query_hash
Upsert(c, key, row) ==
    [k \in DOMAIN c \cup {key} |-> IF k = key THEN row ELSE c[k]]

\* a faulty variant of put that writes hit_count 0
CachePutCountZero(c, q, r, upsertOk) ==
    LET key == QueryHash(q)
        row == [CacheEntry(q, Encode(q), r) EXCEPT !.hit_count = 0]
    IN IF ~upsertOk THEN [raised |-> TRUE, cache |-> c]
       ELSE [raised |-> FALSE, cache |-> Upsert(c, key, row)]

\* a faulty variant of put that writes its row over the whole table
CachePutReplacingAll(c, q, r, upsertOk) ==
    LET key == QueryHash(q)
        row == CacheEntry(q, Encode(q), r)
    IN IF ~upsertOk THEN [raised |-> TRUE, cache |-> c]
       ELSE [raised |-> FALSE, cache |-> Upsert(<<>>, key, row)]

\* a faulty variant of put that keeps the hit_count of a row it overwrites
CachePutKeepingCount(c, q, r, upsertOk) ==
    LET key == QueryHash(q)
        row == CacheEntry(q, Encode(q), r)
    IN IF ~upsertOk THEN [raised |-> TRUE, cache |-> c]
       ELSE [ raised |-> FALSE,
              cache |-> Upsert(c, key,
                  IF key \in DOMAIN c
                  THEN [row EXCEPT !.hit_count = c[key].hit_count] ELSE row) ]

\* SemanticCache.put
CachePut(c, q, r, upsertOk) ==
    LET key == QueryHash(q)
        row == CacheEntry(q, Encode(q), r)
    IN IF ~upsertOk THEN [raised |-> TRUE, cache |-> c]
       ELSE [raised |-> FALSE, cache |-> Upsert(c, key, row)]

\* a faulty variant of the WHERE clause that keeps the threshold of the constructor
AboveThresholdOfConstructor(c, emb, thr) ==
    {k \in DOMAIN c : AtLeastThreshold(Similarity(c[k].query_embedding, emb), 98)}

\* the WHERE clause of match_cache_entry: the rows at or above the threshold
AboveThreshold(c, emb, thr) ==
    {k \in DOMAIN c : AtLeastThreshold(Similarity(c[k].query_embedding, emb), thr)}

\* a faulty variant of match_cache_entry that orders by ascending similarity
MatchCacheEntryAscending(c, emb, thr) ==
    LET cand == AboveThreshold(c, emb, thr)
    IN {k \in cand :
          \A j \in cand : SimGE(Similarity(c[j].query_embedding, emb),
                                Similarity(c[k].query_embedding, emb))}

\* ORDER BY similarity DESC LIMIT 1 of match_cache_entry: the rows one of which
\* is returned (SQL leaves the choice among rows of equal similarity open)
MatchCacheEntry(c, emb, thr) ==
    LET cand == AboveThreshold(c, emb, thr)
    IN {k \in cand :
          \A j \in cand : SimGE(Similarity(c[k].query_embedding, emb),
                                Similarity(c[j].query_embedding, emb))}

\* a faulty variant of the temporal guard without its first test (different years)
GuardRejectsOnlyOneSided(query, cached_query) ==
    LET years_in_query == YearsIn(query)
        years_in_cached == YearsIn(cached_query)
    IN (years_in_query # {} /\ years_in_cached = {})
         \/ (years_in_query = {} /\ years_in_cached # {})

\* a faulty variant of the temporal guard that tests only the years of the incoming
\* query
GuardRejectsQueryYearsOnly(query, cached_query) ==
    LET years_in_query == YearsIn(query)
        years_in_cached == YearsIn(cached_query)
    IN years_in_query # {} /\ years_in_query # years_in_cached

\* the two tests of SemanticCache.get that turn a match into a miss
GuardRejects(query, cached_query) ==
    LET years_in_query == YearsIn(query)
        years_in_cached == YearsIn(cached_query)
    IN \/ (years_in_query # {} /\ years_in_cached # {}
             /\ years_in_query # years_in_cached)
       \/ (years_in_query # {} /\ years_in_cached = {})
       \/ (years_in_query = {} /\ years_in_cached # {})

\* the outcomes of get
GetResult(raised, hit, response, matched, candidate, c) ==
    [ raised |-> raised, hit |-> hit, response |-> response, matched |-> matched,
      candidate |-> candidate, cache |-> c ]

\* a faulty variant of get that does not persist the hit_count
CacheGetNoCount(c, thr, q, rpcOk, updateOk, pick) ==
    IF ~rpcOk THEN GetResult(TRUE, FALSE, None, NoKey, NoKey, c)
    ELSE IF pick = NoKey THEN GetResult(FALSE, FALSE, None, NoKey, NoKey, c)
    ELSE IF GuardRejects(q, c[pick].query)
         THEN GetResult(FALSE, FALSE, None, NoKey, pick, c)
    ELSE GetResult(FALSE, TRUE, c[pick].response, pick, pick, c)

\* a faulty variant of get that, when the guard rejects the row it was given, serves
\* another row at or above the threshold that the guard accepts
CacheGetTryingNext(c, thr, q, rpcOk, updateOk, pick) ==
    IF ~rpcOk THEN GetResult(TRUE, FALSE, None, NoKey, NoKey, c)
    ELSE IF pick = NoKey THEN GetResult(FALSE, FALSE, None, NoKey, NoKey, c)
    ELSE IF GuardRejects(q, c[pick].query)
         THEN LET others == {k \in AboveThreshold(c, Encode(q), thr) \ {pick} :
                               ~GuardRejects(q, c[k].query)}
                  next == CHOOSE k \in others : TRUE
              IN IF others = {} THEN GetResult(FALSE, FALSE, None, NoKey, pick, c)
                 ELSE GetResult(FALSE, TRUE, c[next].response, next, pick,
                                [c EXCEPT ![next].hit_count = c[next].hit_count + 1])
    ELSE IF ~updateOk THEN GetResult(TRUE, FALSE, None, NoKey, pick, c)
    ELSE GetResult(FALSE, TRUE, c[pick].response, pick, pick,
                   [c EXCEPT ![pick].hit_count = c[pick].hit_count + 1])

\* a faulty variant of get that counts the row it was given before the guard tests it
CacheGetCountingCandidates(c, thr, q, rpcOk, updateOk, pick) ==
    IF ~rpcOk THEN GetResult(TRUE, FALSE, None, NoKey, NoKey, c)
    ELSE IF pick = NoKey THEN GetResult(FALSE, FALSE, None, NoKey, NoKey, c)
    ELSE IF ~updateOk THEN GetResult(TRUE, FALSE, None, NoKey, pick, c)
    ELSE IF GuardRejects(q, c[pick].query)
         THEN GetResult(FALSE, FALSE, None, NoKey, pick,
                        [c EXCEPT ![pick].hit_count = c[pick].hit_count + 1])
    ELSE GetResult(FALSE, TRUE, c[pick].response, pick, pick,
                   [c EXCEPT ![pick].hit_count = c[pick].hit_count + 1])

\* SemanticCache.get.  pick is the row match_cache_entry returned (NoKey: no
\* row); rpcOk and updateOk tell whether the two backend calls succeed.
CacheGet(c, thr, q, rpcOk, updateOk, pick) ==
    IF ~rpcOk THEN GetResult(TRUE, FALSE, None, NoKey, NoKey, c)
    ELSE IF pick = NoKey THEN GetResult(FALSE, FALSE, None, NoKey, NoKey, c)
    ELSE IF GuardRejects(q, c[pick].query)
         THEN GetResult(FALSE, FALSE, None, NoKey, pick, c)
    ELSE IF ~updateOk THEN GetResult(TRUE, FALSE, None, NoKey, pick, c)
    ELSE GetResult(FALSE, TRUE, c[pick].response, pick, pick,
                   [c EXCEPT ![pick].hit_count = c[pick].hit_count + 1])

\* the rows match_cache_entry may return for query q, or NoKey when none
Picks(c, thr, q) ==
    LET top == MatchCacheEntry(c, Encode(q), thr)
    IN IF top = {} THEN {NoKey} ELSE top

RECURSIVE SumHits(_, _)
SumHits(c, keys) ==
    IF keys = {} THEN 0
    ELSE LET k == CHOOSE x \in keys : TRUE
         IN (c[k].hit_count - 1) + SumHits(c, keys \ {k})

\* a faulty variant of get_stats that counts the first use of a row as a hit
CacheStatsCountingFirst(c) ==
    IF DOMAIN c = {} THEN NoStats
    ELSE LET total_entries == Cardinality(DOMAIN c)
             total_hits == SumHits(c, DOMAIN c) + total_entries
             total_queries == total_entries + total_hits
         IN [ total_entries |-> total_entries, total_hits |-> total_hits,
              hit_rate |-> <<total_hits, total_queries>> ]

\* SemanticCache.get_stats on the rows the select returned
CacheStats(c) ==
    IF DOMAIN c = {} THEN NoStats
    ELSE LET total_entries == Cardinality(DOMAIN c)
             total_hits == SumHits(c, DOMAIN c)
             total_queries == total_entries + total_hits
         IN [ total_entries |-> total_entries, total_hits |-> total_hits,
              hit_rate |-> IF total_queries > 0
                           THEN <<total_hits, total_queries>> ELSE <<0, 1>> ]

\* the table without the rows in gone
Without(c, gone) == [k \in DOMAIN c \ gone |-> c[k]]

NoContext == [docs |-> <<>>, web |-> ""]

\* one entry of the trace of a request: the callee, its arguments, and for a
\* provider call whether it returned ("ok") or raised ("error")
CallWith(fn, query, context, result) ==
    [fn |-> fn, query |-> query, context |-> context, result |-> result]

Call(fn, query, context) == CallWith(fn, query, context, "ok")

\* the select of clear_cache: it fails, returns no row, or returns rows
SelectCall(result) == CallWith("select", <<>>, NoContext, result)

\* the delete without condition
DeleteCall(ok) ==
    CallWith("delete", <<>>, NoContext, IF ok THEN "ok" ELSE "error")

\* the loop of clear_cache over the rows of the select: one delete per row,
\* which succeeds for the rows in deleted
RECURSIVE DeleteOneByOne(_, _)
DeleteOneByOne(keys, deleted) ==
    IF keys = {} THEN <<>>
    ELSE LET k == CHOOSE x \in keys : TRUE
         IN <<CallWith("delete.eq", k, NoContext,
                       IF k \in deleted THEN "ok" ELSE "error")>>
            \o DeleteOneByOne(keys \ {k}, deleted)

\* a faulty variant of clear_cache that reports success only when every row went
CacheClearAllOrNothing(c, selectOk, bulkOk, deleted) ==
    IF ~selectOk THEN [ok |-> FALSE, cache |-> c, calls |-> <<SelectCall("error")>>]
    ELSE IF DOMAIN c = {}
         THEN [ok |-> TRUE, cache |-> c, calls |-> <<SelectCall("empty")>>]
    ELSE IF bulkOk
         THEN [ ok |-> TRUE, cache |-> Without(c, DOMAIN c),
                calls |-> <<SelectCall("ok"), DeleteCall(TRUE)>> ]
    ELSE [ ok |-> deleted = DOMAIN c, cache |-> Without(c, deleted),
           calls |-> <<SelectCall("ok"), DeleteCall(FALSE)>>
                       \o DeleteOneByOne(DOMAIN c, deleted) ]

\* SemanticCache.clear_cache.  selectOk, bulkOk: whether the select and the
\* unconditional delete succeed; deleted: the rows whose own delete succeeds.
\* calls is the trace of the backend calls made.
CacheClear(c, selectOk, bulkOk, deleted) ==
    IF ~selectOk THEN [ok |-> FALSE, cache |-> c, calls |-> <<SelectCall("error")>>]
    ELSE IF DOMAIN c = {}
         THEN [ok |-> TRUE, cache |-> c, calls |-> <<SelectCall("empty")>>]
    ELSE IF bulkOk
         THEN [ ok |-> TRUE, cache |-> Without(c, DOMAIN c),
                calls |-> <<SelectCall("ok"), DeleteCall(TRUE)>> ]
    ELSE [ ok |-> Cardinality(deleted) > 0, cache |-> Without(c, deleted),
           calls |-> <<SelectCall("ok"), DeleteCall(FALSE)>>
                       \o DeleteOneByOne(DOMAIN c, deleted) ]

----------------------------------------------------------------------------
(* The router *)

\* keyword in query_lower, for a keyword given as its atoms
Contains(text, keyword) ==
    \E i \in 1..(Len(text) - Len(keyword) + 1) :
        SubSeq(text, i, i + Len(keyword) - 1) = keyword

local_keywords ==
    { <<"company">>, <<"revenue">>, <<"profit">>, <<"earnings">>, <<"financial">>,
      <<"balance", " ", "sheet">>, <<"income", " ", "statement">>,
      <<"cash", " ", "flow">>, <<"assets">>, <<"liabilities">>, <<"equity">>,
      <<"sec", " ", "filing">>, <<"10-k">>, <<"annual", " ", "report">>,
      <<"quarterly">>, <<"fiscal", " ", "year">> }

web_keywords ==
    { <<"latest">>, <<"recent">>, <<"current">>, <<"today">>, <<"news">>,
      <<"market", " ", "cap">>, <<"stock", " ", "price">>, <<"breaking">>,
      <<"announcement">>, <<"update">> }

\* the two scores of AgenticRouter.route_query
RouterScores(query, current_year) ==
    LET query_lower == Lower(query)
        local_score == Cardinality({k \in local_keywords : Contains(query_lower, k)})
        keyword_score == Cardinality({k \in web_keywords : Contains(query_lower, k)})
        explicit ==
            IF \E term \in {<<"latest">>, <<"current">>, <<"today">>, <<"recent">>} :
                   Contains(query_lower, term)
            THEN 2 ELSE 0
        recent ==
            IF ContainsText(query_lower, YearStr(current_year))
                 \/ ContainsText(query_lower, YearStr(current_year + 1))
            THEN 3 ELSE 0
    IN [local_score |-> local_score, web_score |-> keyword_score + explicit + recent]

\* a faulty variant of the router that sends equal scores to the web
RouteQueryTiesToWeb(query, current_year) ==
    LET sc == RouterScores(query, current_year)
    IN IF sc.web_score >= sc.local_score THEN "web_search" ELSE "local_search"

\* a faulty variant of the router that keeps a memory: a text it sent to the web is
\* sent to the documents the next time
RouteQueryAlternating(query, current_year) ==
    LET sc == RouterScores(query, current_year)
    IN IF sc.web_score > sc.local_score
            /\ (query \notin RouterQueries \/ last.routed[query].decision # "web_search")
       THEN "web_search" ELSE "local_search"

\* AgenticRouter.route_query
RouteQuery(query, current_year) ==
    LET sc == RouterScores(query, current_year)
    IN IF sc.web_score > sc.local_score THEN "web_search" ELSE "local_search"

----------------------------------------------------------------------------
(* Document retrieval *)

\* top_k of the call in RAGPipeline.search
TopK == 5

\* the rows of table documents as one query sees them: each document with its
\* cosine similarity to the query, in percent
DocTables ==
    { <<>>,
      << [doc |-> "AAPL", similarity |-> 60], [doc |-> "MSFT", similarity |-> 90] >>,
      << [doc |-> "AAPL", similarity |-> 35], [doc |-> "TSLA", similarity |-> 10] >>,
      << [doc |-> "AAPL", similarity |-> 60], [doc |-> "MSFT", similarity |-> 90],
         [doc |-> "TSLA", similarity |-> 10], [doc |-> "NVDA", similarity |-> 20],
         [doc |-> "AMZN", similarity |-> 30], [doc |-> "GOOG", similarity |-> 40] >> }

RECURSIVE InsertBySimilarity(_, _)
InsertBySimilarity(row, sorted) ==
    IF sorted = <<>> THEN <<row>>
    ELSE IF row.similarity >= Head(sorted).similarity THEN <<row>> \o sorted
    ELSE <<Head(sorted)>> \o InsertBySimilarity(row, Tail(sorted))

RECURSIVE OrderBySimilarity(_)
OrderBySimilarity(rows) ==
    IF rows = <<>> THEN <<>>
    ELSE InsertBySimilarity(Head(rows), OrderBySimilarity(Tail(rows)))

\* a faulty variant of match_documents without its LIMIT
MatchDocumentsNoLimit(table, match_count) ==
    LET ordered == OrderBySimilarity(table)
    IN [i \in DOMAIN ordered |->
          [doc |-> ordered[i].doc, distance |-> ordered[i].similarity]]

\* SQL function match_documents: ORDER BY embedding <=> query LIMIT match_count;
\* its column "distance" holds 1 - (embedding <=> query)
MatchDocuments(table, match_count) ==
    LET ordered == OrderBySimilarity(table)
        n == IF Len(ordered) < match_count THEN Len(ordered) ELSE match_count
    IN [i \in 1..n |-> [doc |-> ordered[i].doc, distance |-> ordered[i].similarity]]

\* VectorStore.search: similarity_score = 1.0 - item.get('distance', 0)
VectorStoreSearch(table, top_k) ==
    LET data == MatchDocuments(table, top_k)
    IN [i \in DOMAIN data |-> [doc |-> data[i].doc, score |-> 100 - data[i].distance]]

\* a faulty variant of the relevance test that accepts a score of exactly 0.7
HasRelevantDocsAtLeast(retrieved_docs) ==
    \E i \in DOMAIN retrieved_docs : retrieved_docs[i].score >= 70

\* has_relevant_docs of RAGPipeline.search
HasRelevantDocs(retrieved_docs) ==
    \E i \in DOMAIN retrieved_docs : retrieved_docs[i].score > 70

\* contains_recent_year of RAGPipeline.search
ContainsRecentYear(query, current_year) ==
    \E year \in YearsIn(query) : YearValue(year) >= current_year - 1

\* a faulty variant of the trigger that ignores the caller's permission
WebSearchTriggeredAlways(allow_web_search, routing_decision, has_relevant_docs, contains_recent_year) ==
    routing_decision = "web_search" \/ (~has_relevant_docs /\ contains_recent_year)

\* the condition under which RAGPipeline.search calls the web searcher
WebSearchTriggered(allow_web_search, routing_decision, has_relevant_docs, contains_recent_year) ==
    allow_web_search
      /\ (routing_decision = "web_search"
            \/ (~has_relevant_docs /\ contains_recent_year))

----------------------------------------------------------------------------
(* Web search *)

\* BraveWebSearcher._mock_fallback_search: the first company of the table
\* whose name is in the lower-cased query
MockFallbackSearch(query) ==
    LET query_lower == Lower(query)
    IN CASE Contains(query_lower, <<"nvidia">>) -> "mock: NVIDIA"
         [] Contains(query_lower, <<"tesla">>) -> "mock: Tesla"
         [] Contains(query_lower, <<"apple">>) -> "mock: Apple"
         [] Contains(query_lower, <<"microsoft">>) -> "mock: Microsoft"
         [] OTHER -> "mock: no specific recent data"

\* a faulty variant of the web search that returns no text when the provider fails
WebSearchEmptyOnError(query, providerOk) ==
    IF providerOk THEN "Web Search Results" ELSE ""

\* BraveWebSearcher.search: the formatted results, or the mock fallback after a
\* requests.RequestException
WebSearch(query, providerOk) ==
    IF providerOk THEN "Web Search Results" ELSE MockFallbackSearch(query)

----------------------------------------------------------------------------
(* Answer generation *)

\* the answer texts: the fixed message, and the text each tier makes of a
\* context without and with web information
NoInformation == "I couldn't find relevant information to answer your question."

AnswerText(tier, context) ==
    CASE tier = "primary" /\ context.web = "" -> "gpt-4.1 answer"
      [] tier = "primary" -> "gpt-4.1 answer from web"
      [] tier = "secondary" /\ context.web = "" -> "gpt-3.5-turbo answer"
      [] tier = "secondary" -> "gpt-3.5-turbo answer from web"
      [] tier = "heuristic" /\ context.web = "" -> "key facts answer"
      [] OTHER -> "key facts answer from web"

\* RAGPipeline._generate_enhanced_mock_answer
GenerateEnhancedMockAnswer(query, context) ==
    [ answer |-> AnswerText("heuristic", context),
      calls |-> <<Call("_generate_enhanced_mock_answer", query, context)>> ]

Primary(query, context, ok) ==
    CallWith("responses.create", query, context, IF ok THEN "ok" ELSE "error")

Secondary(query, context, ok) ==
    CallWith("chat.completions.create", query, context, IF ok THEN "ok" ELSE "error")

\* a faulty variant of the chain that goes from a failed primary call straight to the
\* heuristic answer
GenerateOpenAIAnswerNoSecondary(query, context, keyOk, primaryOk, secondaryOk) ==
    IF ~keyOk THEN GenerateEnhancedMockAnswer(query, context)
    ELSE IF primaryOk
         THEN [ answer |-> AnswerText("primary", context),
                calls |-> <<Primary(query, context, TRUE)>> ]
    ELSE LET h == GenerateEnhancedMockAnswer(query, context)
         IN [ answer |-> h.answer,
              calls |-> <<Primary(query, context, FALSE)>> \o h.calls ]

\* a faulty variant of the chain that issues the secondary call whatever the primary
\* call did
GenerateOpenAIAnswerBothCalls(query, context, keyOk, primaryOk, secondaryOk) ==
    IF ~keyOk THEN GenerateEnhancedMockAnswer(query, context)
    ELSE LET both == << Primary(query, context, primaryOk),
                        Secondary(query, context, secondaryOk) >>
         IN IF primaryOk
            THEN [answer |-> AnswerText("primary", context), calls |-> both]
            ELSE IF secondaryOk
            THEN [answer |-> AnswerText("secondary", context), calls |-> both]
            ELSE LET h == GenerateEnhancedMockAnswer(query, context)
                 IN [answer |-> h.answer, calls |-> both \o h.calls]

\* a faulty variant of the chain that calls the provider without an API key
GenerateOpenAIAnswerIgnoringKey(query, context, keyOk, primaryOk, secondaryOk) ==
    IF keyOk /\ primaryOk
    THEN [ answer |-> AnswerText("primary", context),
           calls |-> <<Primary(query, context, TRUE)>> ]
    ELSE LET h == GenerateEnhancedMockAnswer(query, context)
         IN [ answer |-> h.answer,
              calls |-> <<Primary(query, context, FALSE)>> \o h.calls ]

\* a faulty variant of the chain that gives no answer when both calls fail
GenerateOpenAIAnswerReraising(query, context, keyOk, primaryOk, secondaryOk) ==
    IF ~keyOk THEN GenerateEnhancedMockAnswer(query, context)
    ELSE IF primaryOk
         THEN [ answer |-> AnswerText("primary", context),
                calls |-> <<Primary(query, context, TRUE)>> ]
    ELSE IF secondaryOk
         THEN [ answer |-> AnswerText("secondary", context),
                calls |-> << Primary(query, context, FALSE),
                             Secondary(query, context, TRUE) >> ]
    ELSE [ answer |-> None,
           calls |-> << Primary(query, context, FALSE),
                        Secondary(query, context, FALSE) >> ]

\* RAGPipeline._generate_openai_answer.  keyOk: an API key is configured;
\* primaryOk, secondaryOk: the Responses call and the Chat Completions call
\* return a text.
GenerateOpenAIAnswer(query, context, keyOk, primaryOk, secondaryOk) ==
    IF ~keyOk THEN GenerateEnhancedMockAnswer(query, context)
    ELSE IF primaryOk
         THEN [ answer |-> AnswerText("primary", context),
                calls |-> <<Primary(query, context, TRUE)>> ]
    ELSE IF secondaryOk
         THEN [ answer |-> AnswerText("secondary", context),
                calls |-> << Primary(query, context, FALSE),
                             Secondary(query, context, TRUE) >> ]
    ELSE LET h == GenerateEnhancedMockAnswer(query, context)
         IN [ answer |-> h.answer,
              calls |-> << Primary(query, context, FALSE),
                           Secondary(query, context, FALSE) >> \o h.calls ]

\* a faulty variant of _generate_answer without the test of the empty context
GenerateAnswerWithoutContextTest(query, context_docs, web_results, keyOk, primaryOk, secondaryOk) ==
    GenerateOpenAIAnswer(query, [docs |-> context_docs, web |-> web_results],
                         keyOk, primaryOk, secondaryOk)

\* RAGPipeline._generate_answer (its own except branch is never entered:
\* _generate_openai_answer catches what the calls raise and the heuristic
\* answer raises nothing)
GenerateAnswer(query, context_docs, web_results, keyOk, primaryOk, secondaryOk) ==
    LET context == [docs |-> context_docs, web |-> web_results]
    IN IF context = NoContext THEN [answer |-> NoInformation, calls |-> <<>>]
       ELSE GenerateOpenAIAnswer(query, context, keyOk, primaryOk, secondaryOk)

\* The text of the context, line by line.  A line is a sequence of tokens;
\* the two headers _generate_answer writes are the tokens "Document" and
\* "Web Information:".

\* doc.content of the documents, as lines: one line with figures, a note of
\* two lines (the second indented), one line without figures
DocContent(doc) ==
    CASE doc = "AAPL" -> << <<"Apple", " ", "sales", " ", "$", " ", "billion">> >>
      [] doc = "NOTE" -> << <<"Summary">>,
                            <<" ", "net", " ", "revenue", " ", "growth", " ">> >>
      [] OTHER -> << <<"Tesla", " ", "vehicles">> >>

\* the texts web search returns, as lines: none, the mock text of a company,
\* formatted results with four descriptions
WebTexts ==
    { <<>>,
      << <<"Web Search Results (MOCK FALLBACK):">>,
         <<"Apple", " ", "revenue", " ", "$", " ", "billion">>,
         <<>>,
         <<"Source:", " ", "Mock">> >>,
      << <<"Web Search Results:">>, <<>>,
         <<"Title:", " ", "t1">>, <<"Description:", " ", "revenue", " ", "d1">>, <<>>,
         <<"Title:", " ", "t2">>, <<"Description:", " ", "no figures">>, <<>>,
         <<"Title:", " ", "t3">>, <<"Description:", " ", "sales", " ", "d3">>, <<>>,
         <<"Title:", " ", "t4">>, <<"Description:", " ", "growth", " ", "%">>, <<>>,
         <<"Title:", " ", "t5">>, <<"Description:", " ", "million", " ", "d5">> >> }

\* a part of the context: a header put before the first line of a text
WithHeader(header, text) ==
    IF text = <<>> THEN <<header>>
    ELSE <<header \o <<" ">> \o Head(text)>> \o Tail(text)

\* "\n\n".join(parts) followed by split("\n"): an empty line between parts
RECURSIVE JoinParts(_)
JoinParts(parts) ==
    IF parts = <<>> THEN <<>>
    ELSE IF Len(parts) = 1 THEN Head(parts)
    ELSE Head(parts) \o << <<>> >> \o JoinParts(Tail(parts))

\* the context _generate_answer builds from the documents and the web text,
\* as the lines context.split("\n") gives
ContextLines(docs, web_text) ==
    JoinParts([i \in DOMAIN docs |->
                  WithHeader(<<"Document", " ", docs[i]>>, DocContent(docs[i]))]
              \o (IF web_text = <<>> THEN <<>>
                  ELSE <<WithHeader(<<"Web Information:">>, web_text)>>))

\* the terms _generate_enhanced_mock_answer looks for in a lower-cased line
SignalTerms ==
    {"$", "%", "billion", "million", "revenue", "sales", "growth", "increase", "decrease"}

HasSignal(line) == \E i \in DOMAIN line : LowerAtom(line[i]) \in SignalTerms

\* the test of the loop of _generate_enhanced_mock_answer: the line is not
\* empty, starts with neither header, and holds a signal term
IsFactLine(line) ==
    /\ line # <<>>
    /\ line[1] \notin {"Document", "Web Information:"}
    /\ HasSignal(line)

\* relevant_facts[:3] of _generate_enhanced_mock_answer, each line stripped
KeyFacts(context_lines) ==
    LET relevant == SelectSeq(context_lines, IsFactLine)
        n == IF Len(relevant) < 3 THEN Len(relevant) ELSE 3
    IN [i \in 1..n |-> Strip(relevant[i])]

----------------------------------------------------------------------------
(* The orchestrator *)

\* the query texts search is called with: a query the router sends to the web,
\* the same query with two blanks inside, and a query with three local
\* keywords and a year
SearchQueries ==
    { <<"apple", " ", "latest">>,
      <<"apple", " ", " ", "latest">>,
      <<"company", " ", "revenue", " ", "profit", " ", "2023">> }

SearchOutcome(raised, fault, envelope, calls, c) ==
    [raised |-> raised, fault |-> fault, envelope |-> envelope, calls |-> calls,
     cache |-> c]

\* a faulty variant of the miss path that does not write the answer to the cache
SearchOnMissNotCaching(c, current_year, query, allow_web_search, e) ==
    LET routing_decision == RouteQuery(query, current_year)
        retrieved_docs == VectorStoreSearch(e.table, TopK)
        has_relevant_docs == HasRelevantDocs(retrieved_docs)
        contains_recent_year == ContainsRecentYear(query, current_year)
        use_web == WebSearchTriggered(allow_web_search, routing_decision,
                                      has_relevant_docs, contains_recent_year)
        web_results == IF use_web THEN WebSearch(query, e.webOk) ELSE ""
        gen == GenerateAnswer(query, retrieved_docs, web_results,
                              e.keyOk, e.primaryOk, e.secondaryOk)
    IN IF ~e.storeOk
       THEN SearchOutcome(TRUE, "vector_store.search", NoEnvelope, <<>>, c)
       ELSE SearchOutcome(FALSE, None,
                [ answer |-> gen.answer, sources |-> retrieved_docs,
                  cache_hit |-> FALSE, routing_decision |-> routing_decision,
                  web_search_used |-> web_results # "",
                  web_results |-> IF web_results # "" THEN web_results ELSE None ],
                <<Call("cache.get", query, NoContext)>>, c)

\* a faulty variant of the miss path that writes only a provider's answer to the
\* cache
SearchOnMissCachingProviderAnswers(c, current_year, query, allow_web_search, e) ==
    LET routing_decision == RouteQuery(query, current_year)
        retrieved_docs == VectorStoreSearch(e.table, TopK)
        has_relevant_docs == HasRelevantDocs(retrieved_docs)
        contains_recent_year == ContainsRecentYear(query, current_year)
        use_web == WebSearchTriggered(allow_web_search, routing_decision,
                                      has_relevant_docs, contains_recent_year)
        web_results == IF use_web THEN WebSearch(query, e.webOk) ELSE ""
        gen == GenerateAnswer(query, retrieved_docs, web_results,
                              e.keyOk, e.primaryOk, e.secondaryOk)
        degraded == \A i \in DOMAIN gen.calls : gen.calls[i].result # "ok"
                      \/ gen.calls[i].fn = "_generate_enhanced_mock_answer"
        stored == IF degraded THEN [raised |-> FALSE, cache |-> c]
                  ELSE CachePut(c, query, gen.answer, e.upsertOk)
    IN IF ~e.storeOk
       THEN SearchOutcome(TRUE, "vector_store.search", NoEnvelope, <<>>, c)
       ELSE IF stored.raised
       THEN SearchOutcome(TRUE, "cache.put", NoEnvelope, <<>>, c)
       ELSE SearchOutcome(FALSE, None,
                [ answer |-> gen.answer, sources |-> retrieved_docs,
                  cache_hit |-> FALSE, routing_decision |-> routing_decision,
                  web_search_used |-> web_results # "",
                  web_results |-> IF web_results # "" THEN web_results ELSE None ],
                <<Call("cache.get", query, NoContext)>>, stored.cache)

\* RAGPipeline.search from the routing step on (the cache reported a miss).
\* e holds what the providers do during this request.
SearchOnMiss(c, current_year, query, allow_web_search, e) ==
    LET routing_decision == RouteQuery(query, current_year)
        retrieved_docs == VectorStoreSearch(e.table, TopK)
        has_relevant_docs == HasRelevantDocs(retrieved_docs)
        contains_recent_year == ContainsRecentYear(query, current_year)
        use_web == WebSearchTriggered(allow_web_search, routing_decision,
                                      has_relevant_docs, contains_recent_year)
        web_results == IF use_web THEN WebSearch(query, e.webOk) ELSE ""
        gen == GenerateAnswer(query, retrieved_docs, web_results,
                              e.keyOk, e.primaryOk, e.secondaryOk)
        stored == CachePut(c, query, gen.answer, e.upsertOk)
        calls ==
            << Call("cache.get", query, NoContext),
               Call("router.route_query", query, NoContext),
               Call("vector_store.search", query, NoContext) >>
            \o (IF use_web THEN <<Call("web_searcher.search", query, NoContext)>>
                ELSE <<>>)
            \o <<Call("_generate_answer", query,
                      [docs |-> retrieved_docs, web |-> web_results])>>
            \o gen.calls
            \o <<Call("cache.put", query, NoContext)>>
    IN IF ~e.storeOk
       THEN SearchOutcome(TRUE, "vector_store.search", NoEnvelope, <<>>, c)
       ELSE IF stored.raised
       THEN SearchOutcome(TRUE, "cache.put", NoEnvelope, <<>>, c)
       ELSE SearchOutcome(FALSE, None,
                [ answer |-> gen.answer, sources |-> retrieved_docs,
                  cache_hit |-> FALSE, routing_decision |-> routing_decision,
                  web_search_used |-> web_results # "",
                  web_results |-> IF web_results # "" THEN web_results ELSE None ],
                calls, stored.cache)

\* a faulty variant of search that goes on after a cache hit
SearchResultNoShortCircuit(c, thr, current_year, query, allow_web_search, e) ==
    LET got == CacheGet(c, thr, query, e.rpcOk, e.updateOk, e.pick)
    IN IF got.raised
       THEN SearchOutcome(TRUE, "cache.get", NoEnvelope, <<>>, c)
       ELSE SearchOnMiss(got.cache, current_year, query, allow_web_search, e)

\* RAGPipeline.search
SearchResult(c, thr, current_year, query, allow_web_search, e) ==
    LET got == CacheGet(c, thr, query, e.rpcOk, e.updateOk, e.pick)
    IN IF got.raised
       THEN SearchOutcome(TRUE, "cache.get", NoEnvelope, <<>>, c)
       ELSE IF got.hit
       THEN SearchOutcome(FALSE, None,
                [ answer |-> got.response, sources |-> <<>>, cache_hit |-> TRUE,
                  routing_decision |-> "cache", web_search_used |-> FALSE,
                  web_results |-> None ],
                <<Call("cache.get", query, NoContext)>>, got.cache)
       ELSE SearchOnMiss(got.cache, current_year, query, allow_web_search, e)

\* what the generation provider may do: no API key, the primary call
\* succeeds, only the secondary call succeeds, both calls fail
GenerationBehaviours ==
    { [keyOk |-> FALSE, primaryOk |-> TRUE, secondaryOk |-> TRUE],
      [keyOk |-> TRUE, primaryOk |-> TRUE, secondaryOk |-> TRUE],
      [keyOk |-> TRUE, primaryOk |-> FALSE, secondaryOk |-> TRUE],
      [keyOk |-> TRUE, primaryOk |-> FALSE, secondaryOk |-> FALSE] }

Behaviour(pick, rpcOk, updateOk, storeOk, table, webOk, g, upsertOk) ==
    [ pick |-> pick, rpcOk |-> rpcOk, updateOk |-> updateOk, storeOk |-> storeOk,
      table |-> table, webOk |-> webOk, keyOk |-> g.keyOk,
      primaryOk |-> g.primaryOk, secondaryOk |-> g.secondaryOk,
      upsertOk |-> upsertOk ]

AllFine == CHOOSE g \in GenerationBehaviours : g.keyOk /\ g.primaryOk

\* what the providers may do during one request: the row the cache lookup
\* returns, the documents table, and which calls fail.  A call the request
\* never reaches is listed once, as succeeding.
ProviderBehaviours(c, thr, query) ==
    UNION { LET served == pick # NoKey /\ ~GuardRejects(query, c[pick].query)
            IN { Behaviour(pick, FALSE, TRUE, TRUE, <<>>, TRUE, AllFine, TRUE) }
               \cup
               (IF served
                THEN { Behaviour(pick, TRUE, u, TRUE, <<>>, TRUE, AllFine, TRUE) :
                         u \in BOOLEAN }
                ELSE { Behaviour(pick, TRUE, TRUE, FALSE, <<>>, TRUE, AllFine, TRUE) }
                     \cup
                     { Behaviour(pick, TRUE, TRUE, TRUE, x[1], x[2], x[3], x[4]) :
                         x \in DocTables \X BOOLEAN \X GenerationBehaviours \X BOOLEAN })
          : pick \in Picks(c, thr, query) }

----------------------------------------------------------------------------
(* The state after construction, and the calls of the cache's interface *)

\* the sessions of the user interface that share the cache table
Sessions == {1, 2}

\* a session with no cache call under way
NoCacheCall ==
    [ pc |-> "idle", op |-> None, query |-> <<>>, arg |-> None,
      match |-> [query_hash |-> NoKey, hit_count |-> 0, response |-> None],
      hit |-> FALSE, response |-> None ]

\* no call under way; before is the table as it was when the calls under way
\* were made
NoneInFlight == [calls |-> [t \in Sessions |-> NoCacheCall], before |-> <<>>]

\* the record of a call that ended with an exception
Raised(op, fault) == [NoCall EXCEPT !.op = op, !.raised = TRUE, !.fault = fault]

Init ==
    /\ cache = <<>>
    /\ similarity_threshold = 98
    /\ now_year = CHOOSE y \in Years : \A z \in Years : y <= z
    /\ last = NoCall
    /\ lastPutKey = NoKey
    /\ hitsSincePut = 0
    /\ in_flight = NoneInFlight

\* cache.put(q, r)
Put ==
    \E upsertOk \in BOOLEAN, q \in Queries, r \in Responses :
        \E res \in {CachePut(cache, q, r, upsertOk)} :
           /\ Cardinality(DOMAIN res.cache) <= MaxEntries
           /\ cache' = res.cache
           /\ last' = IF res.raised THEN Raised("put", "cache.put")
                      ELSE [NoCall EXCEPT !.op = "put", !.query = q, !.arg = r,
                                          !.replaced =
                                              IF QueryHash(q) \in DOMAIN cache
                                              THEN cache[QueryHash(q)].hit_count
                                              ELSE 0]
           /\ lastPutKey' = IF res.raised THEN lastPutKey ELSE QueryHash(q)
           /\ hitsSincePut' = IF res.raised THEN hitsSincePut ELSE 0
           /\ UNCHANGED <<in_flight, similarity_threshold, now_year>>

\* cache.get(q).  A call that raised in the update of hit_count is recorded
\* with the row it had matched.
Get ==
    \E rpcOk \in BOOLEAN, updateOk \in BOOLEAN, q \in Queries :
      \E pick \in Picks(cache, similarity_threshold, q) :
        \E res \in {CacheGet(cache, similarity_threshold, q, rpcOk, updateOk, pick)} :
           /\ \A k \in DOMAIN res.cache : res.cache[k].hit_count <= MaxHitCount
           /\ cache' = res.cache
           /\ last' = IF res.raised /\ res.candidate = NoKey
                      THEN Raised("get", "cache.get")
                      ELSE IF res.raised
                      THEN [Raised("get", "hit_count update") EXCEPT
                                !.query = q, !.candidate = res.candidate]
                      ELSE [NoCall EXCEPT !.op = "get", !.query = q,
                                          !.hit = res.hit,
                                          !.response = res.response,
                                          !.matched = res.matched,
                                          !.candidate = res.candidate]
           /\ hitsSincePut' = IF res.hit /\ res.matched = lastPutKey
                              THEN hitsSincePut + 1 ELSE hitsSincePut
           /\ UNCHANGED <<in_flight, similarity_threshold, now_year, lastPutKey>>

\* cache.get_stats()
GetStats ==
    \E selectOk \in BOOLEAN :
        /\ last' = IF ~selectOk THEN Raised("get_stats", "cache.get_stats")
                   ELSE [NoCall EXCEPT !.op = "get_stats", !.stats = CacheStats(cache)]
        /\ UNCHANGED <<in_flight, cache, similarity_threshold, now_year, lastPutKey, hitsSincePut>>

\* cache.clear_cache()
ClearCache ==
    \E selectOk \in BOOLEAN, bulkOk \in BOOLEAN :
      \E deleted \in IF selectOk /\ ~bulkOk THEN SUBSET DOMAIN cache ELSE {{}} :
        \E res \in {CacheClear(cache, selectOk, bulkOk, deleted)} :
           /\ cache' = res.cache
           /\ last' = [NoCall EXCEPT !.op = "clear_cache", !.ok = res.ok,
                                       !.calls = res.calls]
           /\ lastPutKey' = NoKey
           /\ hitsSincePut' = 0
           /\ UNCHANGED <<in_flight, similarity_threshold, now_year>>

\* the similarity slider of the user interface
SetThreshold ==
    \E new_threshold \in {80, 98} :
        /\ new_threshold # similarity_threshold
        /\ similarity_threshold' = new_threshold
        /\ last' = [NoCall EXCEPT !.op = "set_threshold"]
        /\ UNCHANGED <<in_flight, cache, now_year, lastPutKey, hitsSincePut>>

\* pipeline.search(q, allow_web_search); last.hit and last.matched record what
\* the cache lookup of the request found
Search ==
    \E q \in SearchQueries, allow_web_search \in BOOLEAN :
      \E e \in ProviderBehaviours(cache, similarity_threshold, q) :
        \E res \in {SearchResult(cache, similarity_threshold, now_year, q,
                                allow_web_search, e)},
           got \in {CacheGet(cache, similarity_threshold, q, e.rpcOk, e.updateOk,
                             e.pick)} :
           /\ Cardinality(DOMAIN res.cache) <= MaxEntries
           /\ \A k \in DOMAIN res.cache : res.cache[k].hit_count <= MaxHitCount
           /\ cache' = res.cache
           /\ last' = IF res.raised THEN Raised("search", res.fault)
                      ELSE [NoCall EXCEPT !.op = "search", !.query = q,
                                          !.allow_web = allow_web_search,
                                          !.hit = got.hit,
                                          !.matched = got.matched,
                                          !.calls = res.calls,
                                          !.envelope = res.envelope]
           /\ lastPutKey' = IF ~res.raised /\ ~res.envelope.cache_hit
                            THEN QueryHash(q) ELSE lastPutKey
           /\ hitsSincePut' =
                IF res.raised THEN hitsSincePut
                ELSE IF ~res.envelope.cache_hit THEN 0
                ELSE IF e.pick = lastPutKey THEN hitsSincePut + 1
                ELSE hitsSincePut
           /\ UNCHANGED <<in_flight, similarity_threshold, now_year>>

\* the calendar year changes
Tick ==
    /\ now_year + 1 \in Years
    /\ now_year' = now_year + 1
    /\ last' = [NoCall EXCEPT !.op = "tick", !.routed = last.routed]
    /\ UNCHANGED <<in_flight, cache, similarity_threshold, lastPutKey, hitsSincePut>>

Next == Put \/ Get \/ GetStats \/ ClearCache \/ SetThreshold

\* the cache called directly, as the user interface and the tests do
Spec == Init /\ [][Next]_vars

NextSearch == Search \/ ClearCache \/ Tick

\* requests through the pipeline
SpecSearch == Init /\ [][NextSearch]_vars

\* the query texts web search is called with: one company, two companies in
\* the reverse of the order of the mock table, no company
WebQueries ==
    { <<"apple", " ", "latest">>,
      <<"apple", " ", "Tesla">>,
      <<"company", " ", "news">> }

\* the pairs of texts the temporal guard is applied to: no year, one year,
\* another year, two years in either order
GuardQueries ==
    { <<"apple">>,
      <<"apple", " ", "2022">>,
      <<"Apple", " ", "2022", " ">>,
      <<"apple", " ", "2023">>,
      <<"apple", " ", "2022", " ", "2023">>,
      <<"2023", " ", "apple", " ", "2022">> }

\* router.route_query(q)
Route ==
    \E q \in RouterQueries :
      \E sc \in {RouterScores(q, now_year)}, d \in {RouteQuery(q, now_year)} :
        /\ last' = [NoCall EXCEPT
                       !.op = "route_query", !.query = q, !.response = d,
                       !.routed = [last.routed EXCEPT ![q] =
                                      [ year |-> now_year, decision |-> d,
                                        local_score |-> sc.local_score,
                                        web_score |-> sc.web_score ]],
                       !.routed_before = last.routed[q]]
        /\ UNCHANGED <<in_flight, cache, similarity_threshold, now_year, lastPutKey, hitsSincePut>>

\* web_searcher.search(q), with a provider that answers or fails with a
\* requests.RequestException
WebSearchCall ==
    \E q \in WebQueries, providerOk \in BOOLEAN :
        /\ last' = [NoCall EXCEPT
                       !.op = "web_search", !.query = q,
                       !.response = WebSearch(q, providerOk),
                       !.fault = IF providerOk THEN None
                                 ELSE "requests.RequestException",
                       !.routed = last.routed]
        /\ UNCHANGED <<in_flight, cache, similarity_threshold, now_year, lastPutKey, hitsSincePut>>

\* the temporal guard of get applied to an incoming text and a cached text,
\* and to the same two texts in the other roles
Guard ==
    \E q1 \in GuardQueries, q2 \in GuardQueries :
        /\ last' = [NoCall EXCEPT
                       !.op = "guard", !.query = q1, !.other = q2,
                       !.ok = ~GuardRejects(q1, q2),
                       !.swapped = ~GuardRejects(q2, q1),
                       !.routed = last.routed]
        /\ UNCHANGED <<in_flight, cache, similarity_threshold, now_year, lastPutKey, hitsSincePut>>

NextParts == Route \/ WebSearchCall \/ Guard \/ Tick

\* the stateless components called one at a time
SpecParts == Init /\ [][NextParts]_vars

\* the lists of scored documents the relevance test is applied to
RetrievedLists ==
    { <<>>,
      << [doc |-> "AAPL", score |-> 90], [doc |-> "MSFT", score |-> 60] >>,
      << [doc |-> "AAPL", score |-> 65], [doc |-> "MSFT", score |-> 50] >>,
      << [doc |-> "AAPL", score |-> 70], [doc |-> "MSFT", score |-> 50] >>,
      << [doc |-> "AAPL", score |-> 20], [doc |-> "MSFT", score |-> 71] >> }

\* has_relevant_docs computed for a list of scored documents
Relevance ==
    \E retrieved_docs \in RetrievedLists :
        /\ last' = [NoCall EXCEPT
                       !.op = "has_relevant_docs", !.results = retrieved_docs,
                       !.ok = HasRelevantDocs(retrieved_docs)]
        /\ UNCHANGED <<in_flight, cache, similarity_threshold, now_year, lastPutKey, hitsSincePut>>

\* vector_store.search(query, top_k) on a table of documents
Retrieve ==
    \E table \in DocTables, top_k \in {1, 2, TopK} :
        /\ last' = [NoCall EXCEPT
                       !.op = "vector_store.search", !.table = table,
                       !.top_k = top_k,
                       !.results = VectorStoreSearch(table, top_k)]
        /\ UNCHANGED <<in_flight, cache, similarity_threshold, now_year, lastPutKey, hitsSincePut>>

\* the contexts answer generation is called with: nothing, documents only,
\* web text only, both
GenContexts ==
    { NoContext,
      [docs |-> <<[doc |-> "AAPL", score |-> 40]>>, web |-> ""],
      [docs |-> <<>>, web |-> "mock: Apple"],
      [docs |-> <<[doc |-> "AAPL", score |-> 40]>>, web |-> "Web Search Results"] }

\* _generate_answer(query, context_docs, use_web, web_results)
Generate ==
    \E q \in SearchQueries, ctx \in GenContexts, g \in GenerationBehaviours :
      \E res \in {GenerateAnswer(q, ctx.docs, ctx.web,
                                 g.keyOk, g.primaryOk, g.secondaryOk)} :
        /\ last' = [NoCall EXCEPT
                       !.op = "generate", !.query = q, !.context = ctx,
                       !.api_key = g.keyOk, !.calls = res.calls,
                       !.response = res.answer]
        /\ UNCHANGED <<in_flight, cache, similarity_threshold, now_year, lastPutKey, hitsSincePut>>

\* the documents the heuristic answer is made from
HeuristicDocs ==
    { <<>>, <<"AAPL">>, <<"NOTE">>, <<"NOTE", "TSLA">>, <<"AAPL", "NOTE">> }

\* _generate_enhanced_mock_answer on the context of some documents and web text
Heuristic ==
    \E docs \in HeuristicDocs, web_text \in WebTexts :
      \E context_lines \in {ContextLines(docs, web_text)} :
        /\ context_lines # <<>>
        /\ last' = [NoCall EXCEPT
                       !.op = "heuristic", !.lines = context_lines,
                       !.facts = KeyFacts(context_lines)]
        /\ UNCHANGED <<in_flight, cache, similarity_threshold, now_year, lastPutKey, hitsSincePut>>

NextAnswer == Relevance \/ Retrieve \/ Generate \/ Heuristic \/ Tick

\* retrieval, the relevance test and answer generation called one at a time
SpecAnswer == Init /\ [][NextAnswer]_vars

----------------------------------------------------------------------------
(* Two sessions calling the cache at the same time: each backend request of a
   call (the upsert of put; the match_cache_entry request and the hit_count
   update of get) is one step, and the steps of the two calls interleave *)

\* the query texts of the overlapping calls: a query, the same query in
\* another letter case and with a trailing blank, the query about another year
OverlapQueries ==
    { <<"apple", " ", "2022">>,
      <<"Apple", " ", "2022", " ">>,
      <<"apple", " ", "2023">> }

\* the calls a session can make: put(q, r) and get(q)
CacheCalls ==
    { [NoCacheCall EXCEPT !.pc = "called", !.op = "put", !.query = x[1], !.arg = x[2]] :
        x \in OverlapQueries \X Responses }
    \cup
    { [NoCacheCall EXCEPT !.pc = "called", !.op = "get", !.query = q] :
        q \in OverlapQueries }

\* the two sessions call the cache, each before the call of the other returns
BeginCalls ==
    /\ \A t \in Sessions : in_flight.calls[t].pc \in {"idle", "returned"}
    /\ \E c1 \in CacheCalls, c2 \in CacheCalls :
         in_flight' = [calls |-> <<c1, c2>>, before |-> cache]
    /\ UNCHANGED <<cache, similarity_threshold, now_year, last, lastPutKey, hitsSincePut>>

\* put of session t: the upsert request (semantic_cache.py line 146) is
\* carried out by the backend as one statement
PutUpsert ==
    \E t \in Sessions :
      /\ in_flight.calls[t].pc = "called"
      /\ in_flight.calls[t].op = "put"
      /\ \E res \in {CachePut(cache, in_flight.calls[t].query, in_flight.calls[t].arg, TRUE)} :
           /\ Cardinality(DOMAIN res.cache) <= MaxEntries
           /\ cache' = res.cache
      /\ in_flight' = [in_flight EXCEPT !.calls[t].pc = "returned"]
      /\ UNCHANGED <<similarity_threshold, now_year, last, lastPutKey, hitsSincePut>>

\* get of session t, first request: match_cache_entry and the guard on the row
\* it returned; the call keeps the row as it read it
GetMatch ==
    \E t \in Sessions :
      /\ in_flight.calls[t].pc = "called"
      /\ in_flight.calls[t].op = "get"
      /\ \E pick \in Picks(cache, similarity_threshold, in_flight.calls[t].query) :
           IF pick = NoKey \/ GuardRejects(in_flight.calls[t].query, cache[pick].query)
           THEN in_flight' = [in_flight EXCEPT !.calls[t].pc = "returned"]
           ELSE /\ cache[pick].hit_count < MaxHitCount
                /\ in_flight' =
                     [in_flight EXCEPT
                        !.calls[t].pc = "matched",
                        !.calls[t].match =
                            [ query_hash |-> pick,
                              hit_count |-> cache[pick].hit_count,
                              response |-> cache[pick].response ]]
      /\ UNCHANGED <<cache, similarity_threshold, now_year, last, lastPutKey, hitsSincePut>>

\* get of session t, second request: update hit_count to match["hit_count"] + 1
\* where query_hash is that of the row read, then return the response read
GetUpdate ==
    \E t \in Sessions :
      /\ in_flight.calls[t].pc = "matched"
      /\ \E m \in {in_flight.calls[t].match} :
           /\ cache' = IF m.query_hash \in DOMAIN cache
                        THEN [cache EXCEPT ![m.query_hash].hit_count = m.hit_count + 1]
                        ELSE cache
           /\ in_flight' = [in_flight EXCEPT !.calls[t].pc = "returned",
                                              !.calls[t].hit = TRUE,
                                              !.calls[t].response = m.response]
      /\ UNCHANGED <<similarity_threshold, now_year, last, lastPutKey, hitsSincePut>>

NextOverlap == BeginCalls \/ PutUpsert \/ GetMatch \/ GetUpdate

\* two sessions on one cache table
SpecOverlap == Init /\ [][NextOverlap]_vars

----------------------------------------------------------------------------
(* Properties of the cache, checked under Spec *)

GetReturned == last.op = "get" /\ ~last.raised

\* C1: whenever get(q) returns hit = true, the years of the matched cached
\* query are the years of q; and when match_cache_entry returns a row whose
\* query names other years than q (both name some), get returns (None, false).
C1_HitOnlyOnEqualYears ==
    /\ (GetReturned /\ last.hit)
         => YearsIn(cache[last.matched].query) = YearsIn(last.query)
    /\ (GetReturned /\ last.candidate # NoKey
          /\ YearsIn(last.query) # {}
          /\ YearsIn(cache[last.candidate].query) # {}
          /\ YearsIn(last.query) # YearsIn(cache[last.candidate].query))
         => (~last.hit /\ last.response = None)

\* a row at or above the threshold was found for "apple 2023", it is about
\* 2022, and get answered with a miss
C1_Witness ==
    /\ GetReturned /\ ~last.hit /\ last.candidate # NoKey
    /\ YearsIn(last.query) = {"2023"}
    /\ YearsIn(cache[last.candidate].query) = {"2022"}
    /\ AtLeastThreshold(Similarity(cache[last.candidate].query_embedding,
                                   Encode(last.query)), similarity_threshold)

\* get(q) returned, and the latest put (no put or clear_cache since) was of
\* this very text
GetAfterPutOfSameText ==
    /\ GetReturned
    /\ lastPutKey # NoKey
    /\ cache[lastPutKey].query = last.query

\* every other row is strictly less similar to the query than the row of the
\* latest put
LastPutIsOnlyBest ==
    \A k \in DOMAIN cache \ {lastPutKey} :
        ~SimGE(Similarity(cache[k].query_embedding, Encode(last.query)),
               Similarity(cache[lastPutKey].query_embedding, Encode(last.query)))

\* C2 as stated: put(q, r) followed by get(q), with no put or clear_cache in
\* between, returns (r, true)
C2_RoundTripAlways ==
    GetAfterPutOfSameText
      => (last.hit /\ last.response = cache[lastPutKey].response)

\* C2 as amended: put(q, r) followed by get(q), with no put or clear_cache in
\* between, returns (r, true) when no other row of the cache is as similar to
\* q as the row just put
C2_RoundTripUniqueBest ==
    (GetAfterPutOfSameText /\ LastPutIsOnlyBest)
      => (last.hit /\ last.response = cache[lastPutKey].response)

\* the round trip succeeded with another row in the cache
C2_Witness ==
    /\ GetAfterPutOfSameText /\ LastPutIsOnlyBest
    /\ Cardinality(DOMAIN cache) = 2
    /\ last.hit /\ last.response = cache[lastPutKey].response

\* C9: after one put followed by k gets that hit its row (no put or
\* clear_cache in between) the row's hit_count is 1 + k; when that row is the
\* only one, get_stats gives total_hits = k and hit_rate = k / (1 + k)
C9_HitCounting ==
    /\ lastPutKey # NoKey => cache[lastPutKey].hit_count = 1 + hitsSincePut
    /\ (last.op = "get_stats" /\ ~last.raised /\ lastPutKey # NoKey
          /\ DOMAIN cache = {lastPutKey})
         => /\ last.stats.total_hits = hitsSincePut
            /\ last.stats.hit_rate[1] * (1 + hitsSincePut)
                 = hitsSincePut * last.stats.hit_rate[2]
            /\ last.stats.hit_rate[2] > 0

\* one put, two hits, then get_stats: total_hits = 2 and hit_rate = 2/3
C9_Witness ==
    /\ last.op = "get_stats" /\ ~last.raised
    /\ lastPutKey # NoKey /\ DOMAIN cache = {lastPutKey}
    /\ hitsSincePut = 2
    /\ last.stats.total_hits = 2
    /\ last.stats.hit_rate = <<2, 3>>

PutReturned == last.op = "put" /\ ~last.raised

\* C10: a put(q, r) that returns leaves the row of q's hash with response r
\* and hit_count 1, whether or not the hash had a row, and leaves every row
\* of another hash as it was
C10_PutUpserts ==
    [][ PutReturned'
          => LET key == QueryHash(last'.query)
             IN /\ key \in DOMAIN cache'
                /\ cache'[key].response = last'.arg
                /\ cache'[key].hit_count = 1
                /\ DOMAIN cache' = DOMAIN cache \cup {key}
                /\ \A k \in DOMAIN cache \ {key} : cache'[k] = cache[k] ]_vars

\* a put replaced a row that had served hits, beside another row
C10_Witness ==
    /\ PutReturned
    /\ last.replaced >= 2
    /\ cache[QueryHash(last.query)].hit_count = 1
    /\ cache[QueryHash(last.query)].response = last.arg
    /\ Cardinality(DOMAIN cache) = 2

----------------------------------------------------------------------------
(* Properties of the pipeline, checked under SpecSearch *)

SearchReturned == last.op = "search" /\ ~last.raised

Called(fn) == \E i \in DOMAIN last.calls : last.calls[i].fn = fn

\* C3 as stated: every search call returns an envelope with an answer; no
\* exception leaves search, whichever provider fails
C3_SearchNeverRaises ==
    last.op = "search" => (~last.raised /\ last.envelope.answer # None)

\* C4 as stated: an error of the cache backend during cache.get or cache.put
\* does not end the request
C4_CacheFaultIsNotFatal ==
    ~(last.op = "search" /\ last.raised /\ last.fault \in {"cache.get", "cache.put"})

\* C5: on a cache hit search returns the cached answer with cache_hit = true,
\* and the only call of the request is cache.get: no router, retriever, web
\* searcher, generator or cache.put
C5_HitShortCircuits ==
    (SearchReturned /\ last.hit)
      => /\ last.envelope.cache_hit
         /\ last.envelope.answer = cache[last.matched].response
         /\ last.envelope.routing_decision = "cache"
         /\ ~last.envelope.web_search_used
         /\ Len(last.calls) = 1
         /\ last.calls[1].fn = "cache.get"

\* a request was answered from the cache with web search allowed
C5_Witness ==
    /\ SearchReturned /\ last.hit /\ last.envelope.cache_hit /\ last.allow_web
    /\ last.envelope.answer = cache[last.matched].response
    /\ cache[last.matched].hit_count = 2

SearchMissed == SearchReturned /\ ~last.envelope.cache_hit

RelevantSource ==
    \E i \in DOMAIN last.envelope.sources : last.envelope.sources[i].score > 70

RecentYearInQuery ==
    \E i \in DOMAIN last.query :
        /\ last.query[i] \in YearAtoms
        /\ WordBoundaryAround(last.query, i)
        /\ YearValue(last.query[i]) >= now_year - 1

\* C6: on a cache miss the web searcher is called exactly when
\* allow_web_search holds and (the router said web_search, or no retrieved
\* score exceeds 0.7 and the query holds a year token >= current_year - 1)
C6_WebSearchTrigger ==
    SearchMissed
      => /\ Called("web_searcher.search")
              <=> (last.allow_web
                     /\ (last.envelope.routing_decision = "web_search"
                           \/ (~RelevantSource /\ RecentYearInQuery)))
         /\ ~last.allow_web => ~Called("web_searcher.search")
         /\ (last.envelope.routing_decision = "local_search" /\ RelevantSource)
              => ~Called("web_searcher.search")

\* web search allowed, the router said local_search, a retrieved score exceeds
\* 0.7, the query names the current year: the web searcher was not called
C6_Witness ==
    /\ SearchMissed /\ last.allow_web
    /\ last.envelope.routing_decision = "local_search"
    /\ RelevantSource
    /\ Contains(Lower(last.query), <<YearStr(now_year)>>)
    /\ ~Called("web_searcher.search")

\* web search allowed, the router said local_search, no retrieved score
\* exceeds 0.7, the query names a recent year: the web searcher was called
C6_WitnessCalled ==
    /\ SearchMissed /\ last.allow_web
    /\ last.envelope.routing_decision = "local_search"
    /\ ~RelevantSource /\ RecentYearInQuery
    /\ Called("web_searcher.search")

\* the call after call i has the given callee and the query and context of call i
NextCallIs(i, fn) ==
    /\ i + 1 \in DOMAIN last.calls
    /\ last.calls[i + 1].fn = fn
    /\ last.calls[i + 1].query = last.calls[i].query
    /\ last.calls[i + 1].context = last.calls[i].context

\* C7: when the primary generation call errors, the secondary call comes next
\* with the same query and context; when the secondary call errors too, the
\* heuristic answer is made next from that context and is the answer returned
C7_FallbackOrder ==
    SearchMissed
      => \A i \in DOMAIN last.calls :
           /\ (last.calls[i].fn = "responses.create" /\ last.calls[i].result = "error")
                => NextCallIs(i, "chat.completions.create")
           /\ (last.calls[i].fn = "chat.completions.create"
                 /\ last.calls[i].result = "error")
                => /\ NextCallIs(i, "_generate_enhanced_mock_answer")
                   /\ last.envelope.answer
                        = AnswerText("heuristic", last.calls[i].context)

\* both provider calls failed and the heuristic answer was returned
C7_Witness ==
    /\ SearchMissed
    /\ \E i \in DOMAIN last.calls :
         /\ last.calls[i].fn = "responses.create" /\ last.calls[i].result = "error"
         /\ NextCallIs(i, "chat.completions.create")
         /\ last.calls[i + 1].result = "error"
         /\ NextCallIs(i + 1, "_generate_enhanced_mock_answer")
         /\ last.calls[i].context.docs # <<>>
    /\ last.envelope.answer \in {"key facts answer", "key facts answer from web"}

\* C8: the secondary call is issued only after a failed primary call, the
\* heuristic answer is made only when no provider call succeeded, and the
\* answer returned is that of the first tier that succeeded
C8_TierOnlyAfterFailure ==
    SearchMissed
      => \A i \in DOMAIN last.calls :
           /\ (last.calls[i].fn = "responses.create" /\ last.calls[i].result = "ok")
                => /\ ~Called("chat.completions.create")
                   /\ ~Called("_generate_enhanced_mock_answer")
                   /\ last.envelope.answer
                        = AnswerText("primary", last.calls[i].context)
           /\ last.calls[i].fn = "chat.completions.create"
                => /\ i - 1 \in DOMAIN last.calls
                   /\ last.calls[i - 1].fn = "responses.create"
                   /\ last.calls[i - 1].result = "error"
           /\ (last.calls[i].fn = "chat.completions.create"
                 /\ last.calls[i].result = "ok")
                => /\ ~Called("_generate_enhanced_mock_answer")
                   /\ last.envelope.answer
                        = AnswerText("secondary", last.calls[i].context)
           /\ last.calls[i].fn = "_generate_enhanced_mock_answer"
                => \A j \in DOMAIN last.calls :
                     last.calls[j].fn \in {"responses.create", "chat.completions.create"}
                       => last.calls[j].result = "error"

\* the primary call failed, the secondary call succeeded and gave the answer
C8_Witness ==
    /\ SearchMissed
    /\ \E i \in DOMAIN last.calls :
         /\ last.calls[i].fn = "chat.completions.create"
         /\ last.calls[i].result = "ok"
         /\ last.envelope.answer = AnswerText("secondary", last.calls[i].context)
    /\ ~Called("_generate_enhanced_mock_answer")

----------------------------------------------------------------------------
(* Further properties of the cache, checked under Spec *)

\* two texts that differ only in letter case or surrounding whitespace
SameNormalizedText(q1, q2) == Strip(Lower(q1)) = Strip(Lower(q2))

\* C11: texts that are equal after lower-casing and stripping have the same
\* query_hash, the cache never holds two rows for such texts, and a put of a
\* text takes the place of the row of any text with the same normalisation
C11_OneEntryPerNormalizedQuery ==
    /\ \A q1 \in Queries, q2 \in Queries :
          SameNormalizedText(q1, q2) => QueryHash(q1) = QueryHash(q2)
    /\ \A k1 \in DOMAIN cache, k2 \in DOMAIN cache :
          SameNormalizedText(cache[k1].query, cache[k2].query) => k1 = k2
    /\ PutReturned
         => \A k \in DOMAIN cache :
              SameNormalizedText(cache[k].query, last.query)
                => (cache[k].query = last.query /\ cache[k].response = last.arg)

\* "Apple 2022 " was put over the row of a text with the same normalisation
\* and is the only row
C11_Witness ==
    /\ PutReturned
    /\ last.query = <<"Apple", " ", "2022", " ">>
    /\ last.replaced >= 1
    /\ DOMAIN cache = {<<"apple", " ", "2022">>}
    /\ cache[<<"apple", " ", "2022">>].query = last.query

ClearReturned == last.op = "clear_cache" /\ ~last.raised

\* C12 as stated: whenever clear_cache returns true the cache holds no row
\* afterwards (get_stats would report total_entries = 0)
C12_ClearedWhenTrue ==
    (ClearReturned /\ last.ok)
      => (DOMAIN cache = {} /\ CacheStats(cache).total_entries = 0)

\* position i of the trace of clear_cache is a call of fn with this result
ClearCallAt(i, fn, result) ==
    /\ i \in DOMAIN last.calls
    /\ last.calls[i].fn = fn
    /\ last.calls[i].result = result

\* C13: clear_cache never raises; the delete without condition is the first
\* delete it attempts and the deletes of single rows come only after that
\* delete was rejected; it returns true exactly when the select found no row,
\* or the delete without condition succeeded, or the delete of at least one
\* row succeeded, and it returns false when the select fails
C13_ClearOrderAndResult ==
    last.op = "clear_cache"
      => /\ ~last.raised
         /\ \A i \in DOMAIN last.calls :
               /\ last.calls[i].fn = "delete" => i = 2
               /\ last.calls[i].fn = "delete.eq"
                    => (i > 2 /\ ClearCallAt(2, "delete", "error"))
         /\ last.ok <=> \/ ClearCallAt(1, "select", "empty")
                        \/ ClearCallAt(2, "delete", "ok")
                        \/ \E i \in DOMAIN last.calls :
                              ClearCallAt(i, "delete.eq", "ok")
         /\ ClearCallAt(1, "select", "error")
              => (~last.ok /\ Len(last.calls) = 1)

\* the delete without condition was rejected, of two rows one was deleted and
\* one was not, and clear_cache returned true
C13_Witness ==
    /\ ClearReturned /\ last.ok
    /\ ClearCallAt(2, "delete", "error")
    /\ \E i \in DOMAIN last.calls : ClearCallAt(i, "delete.eq", "ok")
    /\ \E i \in DOMAIN last.calls : ClearCallAt(i, "delete.eq", "error")
    /\ Cardinality(DOMAIN cache) = 1

\* C14 as stated: when the row found passes the temporal guard and the update
\* of its hit_count fails, get still returns (stored response, true)
C14_UpdateFailureStillHit ==
    (last.op = "get" /\ last.fault = "hit_count update")
      => /\ ~last.raised
         /\ last.hit
         /\ last.response = cache[last.candidate].response

----------------------------------------------------------------------------
(* Further properties of the pipeline, checked under SpecSearch *)

\* the steps of a request, as opposed to the provider calls made inside
\* answer generation
IsStep(call) ==
    call.fn \in { "cache.get", "router.route_query", "vector_store.search",
                  "web_searcher.search", "_generate_answer", "cache.put" }

StepNames == LET steps == SelectSeq(last.calls, IsStep)
             IN [i \in DOMAIN steps |-> steps[i].fn]

\* C15: a request that misses the cache and returns has made, once each and
\* in this order, the routing, the retrieval (at most 5 documents, whatever
\* the routing decision), the web search when it is triggered, the answer
\* generation and the cache write of (query, answer); the provider calls of
\* the generation lie between the generation step and the cache write
C15_MissStepOrder ==
    SearchMissed
      => /\ StepNames \in
               { << "cache.get", "router.route_query", "vector_store.search",
                    "_generate_answer", "cache.put" >>,
                 << "cache.get", "router.route_query", "vector_store.search",
                    "web_searcher.search", "_generate_answer", "cache.put" >> }
         /\ last.calls[Len(last.calls)].fn = "cache.put"
         /\ \A i \in DOMAIN last.calls :
               /\ last.calls[i].query = last.query
               /\ ~IsStep(last.calls[i])
                    => \E j \in 1..(i - 1) : last.calls[j].fn = "_generate_answer"
         /\ Len(last.envelope.sources) <= 5
         /\ cache[QueryHash(last.query)].query = last.query
         /\ cache[QueryHash(last.query)].response = last.envelope.answer
         /\ cache[QueryHash(last.query)].hit_count = 1

\* a request routed to the web retrieved 5 of 6 documents, searched the web,
\* called the generation provider twice and wrote the answer to the cache
C15_Witness ==
    /\ SearchMissed
    /\ last.envelope.routing_decision = "web_search"
    /\ Len(last.envelope.sources) = 5
    /\ Called("web_searcher.search")
    /\ Called("chat.completions.create")
    /\ cache[QueryHash(last.query)].response = last.envelope.answer

----------------------------------------------------------------------------
(* Properties of the router, the web search and the temporal guard, checked
   under SpecParts; the guard inside get, checked under Spec *)

RouteReturned == last.op = "route_query" /\ ~last.raised

\* what the call of route_query just made logged
Routed == last.routed[last.query]

\* C16: route_query returns web_search exactly when web_score > local_score
\* and local_search otherwise; equal scores, both zero included, give
\* local_search
C16_RouterDecision ==
    RouteReturned
      => /\ last.response \in {"web_search", "local_search"}
         /\ last.response = "web_search" <=> Routed.web_score > Routed.local_score
         /\ Routed.web_score = Routed.local_score => last.response = "local_search"

\* equal scores of 3 gave local_search
C16_Witness ==
    /\ RouteReturned
    /\ Routed.web_score = 3 /\ Routed.local_score = 3
    /\ last.response = "local_search"

\* the text just routed was routed before
RoutedAgain == RouteReturned /\ last.routed_before # NoRouting

MockCompanies == <<"nvidia", "tesla", "apple", "microsoft">>

MockBlurbs == <<"mock: NVIDIA", "mock: Tesla", "mock: Apple", "mock: Microsoft">>

\* the companies of the mock table named in the lower-cased text
CompaniesNamed(q) ==
    {i \in DOMAIN MockCompanies : \E j \in DOMAIN q : LowerAtom(q[j]) = MockCompanies[i]}

\* C18: web search does not raise when the provider fails with a network or
\* HTTP error: it returns the mock text of the first company of the table
\* (nvidia, tesla, apple, microsoft) named in the lower-cased query, or the
\* no-data message when none is named; the text returned is never empty
C18_WebSearchDegrades ==
    last.op = "web_search"
      => /\ ~last.raised
         /\ last.response \notin {"", None}
         /\ last.fault # None
              => LET named == CompaniesNamed(last.query)
                 IN IF named = {}
                    THEN last.response = "mock: no specific recent data"
                    ELSE \E i \in named :
                           /\ \A j \in named : i <= j
                           /\ last.response = MockBlurbs[i]

\* the provider failed for a query naming apple before Tesla, and the text of
\* tesla came back
C18_Witness ==
    /\ last.op = "web_search" /\ ~last.raised
    /\ last.fault = "requests.RequestException"
    /\ CompaniesNamed(last.query) = {2, 3}
    /\ last.query[1] = "apple"
    /\ last.response = "mock: Tesla"

\* C19 as stated: for the row match_cache_entry returned, get decides by the
\* table: a hit exactly when the years of the query and of the cached query
\* are the same set (both empty included), so a row with the same years is
\* never rejected and get returns a hit
C19_GuardTableAndHit ==
    (last.op = "get" /\ last.candidate # NoKey)
      => /\ ~last.raised
         /\ last.hit <=> YearsIn(last.query) = YearsIn(cache[last.candidate].query)

\* C20: the guard gives the same decision for (q1 incoming, q2 cached) and
\* for (q2 incoming, q1 cached)
C20_GuardSymmetry ==
    last.op = "guard" => last.ok = last.swapped

\* a text without a year against a text with a year: not eligible either way
C20_Witness ==
    /\ last.op = "guard"
    /\ YearsIn(last.query) = {} /\ YearsIn(last.other) = {"2022"}
    /\ ~last.ok /\ ~last.swapped

\* two texts with the same two years in another order: eligible either way
C20_WitnessEligible ==
    /\ last.op = "guard"
    /\ last.query # last.other
    /\ YearsIn(last.query) = {"2022", "2023"}
    /\ last.ok /\ last.swapped

----------------------------------------------------------------------------
(* Statistics and the life of the rows, checked under Spec *)

StatsReturned == last.op = "get_stats" /\ ~last.raised

\* the sum of hit_count over the rows with the keys given
RECURSIVE HitCountSum(_)
HitCountSum(keys) ==
    IF keys = {} THEN 0
    ELSE LET k == CHOOSE x \in keys : TRUE
         IN cache[k].hit_count + HitCountSum(keys \ {k})

\* C21: get_stats returns total_entries = the number of rows, total_hits =
\* the sum over the rows of (hit_count - 1) and hit_rate = total_hits /
\* (total_entries + total_hits); all three are 0 for the empty cache; so
\* 0 <= hit_rate < 1
C21_StatsFormulas ==
    StatsReturned
      => LET n == Cardinality(DOMAIN cache)
             hits == HitCountSum(DOMAIN cache) - n
             rate == last.stats.hit_rate
         IN /\ last.stats.total_entries = n
            /\ last.stats.total_hits = hits
            /\ rate[2] > 0
            /\ n > 0 => rate[1] * (n + hits) = hits * rate[2]
            /\ n = 0 => (rate[1] = 0 /\ last.stats.total_hits = 0)
            /\ 0 <= rate[1] /\ rate[1] < rate[2]

\* two rows, one of them hit twice: 2 entries, 2 hits, hit_rate 2/4
C21_Witness ==
    /\ StatsReturned
    /\ last.stats.total_entries = 2
    /\ last.stats.total_hits = 2
    /\ last.stats.hit_rate = <<2, 4>>
    /\ \E k \in DOMAIN cache : cache[k].hit_count = 3

\* C22: every row of the cache has hit_count >= 1, so the total_hits that
\* get_stats returns is never negative
C22_HitCountAtLeastOne ==
    /\ \A k \in DOMAIN cache : cache[k].hit_count >= 1
    /\ StatsReturned => last.stats.total_hits >= 0

\* a row that served hits was written again by put and is at hit_count 1
\* beside a row at hit_count 2
C22_Witness ==
    /\ last.op = "put" /\ ~last.raised /\ last.replaced = 3
    /\ cache[QueryHash(last.query)].hit_count = 1
    /\ \E k \in DOMAIN cache : cache[k].hit_count = 2

\* C23: no call other than clear_cache removes a row: across every step that
\* is not a clear_cache the set of query_hash keys stays or grows
C23_OnlyClearDeletes ==
    [][ last'.op # "clear_cache" => DOMAIN cache \subseteq DOMAIN cache' ]_vars

\* a put of a second text returned and the row of the first text, which had
\* served a hit, is still there
C23_Witness ==
    /\ last.op = "put" /\ ~last.raised /\ last.replaced = 0
    /\ Cardinality(DOMAIN cache) = 2
    /\ \E k \in DOMAIN cache \ {QueryHash(last.query)} : cache[k].hit_count = 2

----------------------------------------------------------------------------
(* Properties of retrieval, the relevance test and answer generation,
   checked under SpecAnswer *)

\* C24: has_relevant_docs is true exactly when some retrieved score is
\* strictly above 0.7: true for [0.9, 0.6], false for [0.65, 0.5], for the
\* empty list and for a best score of exactly 0.7
C24_RelevanceGate ==
    last.op = "has_relevant_docs"
      => /\ last.ok <=> \E i \in DOMAIN last.results : last.results[i].score > 70
         /\ last.results = <<>> => ~last.ok
         /\ (last.results # <<>> /\ last.results[1].score = 90) => last.ok
         /\ (last.results # <<>> /\ last.results[1].score \in {65, 70}) => ~last.ok

\* the best score is exactly 0.7 and has_relevant_docs is false
C24_Witness ==
    /\ last.op = "has_relevant_docs"
    /\ last.results # <<>>
    /\ last.results[1].score = 70
    /\ \A i \in DOMAIN last.results : last.results[i].score <= 70
    /\ ~last.ok

\* C25 as stated: vector_store.search returns at most top_k results, in
\* descending order of score, and the score of a result is 1 - cosine
\* distance of its document to the query, i.e. its cosine similarity
C25_ResultsBySimilarity ==
    last.op = "vector_store.search"
      => /\ Len(last.results) <= last.top_k
         /\ \A i \in DOMAIN last.results, j \in DOMAIN last.results :
               i < j => last.results[i].score >= last.results[j].score
         /\ \A i \in DOMAIN last.results :
               \E r \in DOMAIN last.table :
                 /\ last.table[r].doc = last.results[i].doc
                 /\ last.table[r].similarity = last.results[i].score

GenerateReturned == last.op = "generate" /\ ~last.raised

\* C26: without an API key, generation with a non-empty context returns the
\* heuristic answer and calls neither the primary nor the secondary provider
C26_NoKeyHeuristicOnly ==
    (GenerateReturned /\ ~last.api_key /\ last.context # NoContext)
      => /\ last.response = AnswerText("heuristic", last.context)
         /\ ~Called("responses.create")
         /\ ~Called("chat.completions.create")
         /\ Called("_generate_enhanced_mock_answer")

\* no API key, documents and web text in the context: heuristic answer,
\* one call
C26_Witness ==
    /\ GenerateReturned /\ ~last.api_key
    /\ last.context.docs # <<>> /\ last.context.web # ""
    /\ last.response = "key facts answer from web"
    /\ Len(last.calls) = 1

\* C27: with no document and no web text, generation returns the fixed
\* no-information message and calls no provider and no heuristic tier
C27_EmptyContextMessage ==
    (GenerateReturned /\ last.context = NoContext)
      => /\ last.response = NoInformation
         /\ last.calls = <<>>

\* empty context with an API key configured: the fixed message, no call
C27_Witness ==
    /\ GenerateReturned /\ last.api_key
    /\ last.context = NoContext
    /\ last.response = NoInformation
    /\ last.calls = <<>>

\* the texts generation can return
AnswerTexts ==
    { NoInformation, "gpt-4.1 answer", "gpt-4.1 answer from web",
      "gpt-3.5-turbo answer", "gpt-3.5-turbo answer from web",
      "key facts answer", "key facts answer from web" }

\* C28: generation returns a text and raises nothing whatever the primary
\* and the secondary call do (return, fail, not configured); the heuristic
\* tier does not fail
C28_GenerationAlwaysAnswers ==
    last.op = "generate"
      => /\ ~last.raised
         /\ last.response \in AnswerTexts
         /\ \A i \in DOMAIN last.calls :
               last.calls[i].fn = "_generate_enhanced_mock_answer"
                 => (last.calls[i].result = "ok" /\ i = Len(last.calls))

\* both provider calls failed and the heuristic text was returned
C28_Witness ==
    /\ GenerateReturned /\ last.api_key
    /\ Len(last.calls) = 3
    /\ last.calls[1].result = "error" /\ last.calls[2].result = "error"
    /\ last.calls[3].fn = "_generate_enhanced_mock_answer"
    /\ last.response = "key facts answer"

\* the context lines that hold a signal term, in their order
SignalLines == SelectSeq(last.lines, HasSignal)

\* C29 as stated: the key facts of the heuristic answer are the first
\* min(3, n) of the n context lines that hold a signal term, in context order
C29_KeyFactsAreSignalLines ==
    last.op = "heuristic"
      => /\ Len(last.facts) = (IF Len(SignalLines) < 3 THEN Len(SignalLines) ELSE 3)
         /\ \A i \in DOMAIN last.facts : last.facts[i] = Strip(SignalLines[i])

----------------------------------------------------------------------------
(* The scores of the router, checked under SpecParts *)

\* the query holds, as a token of its own, the text of this year
HasYearToken(q, year) ==
    \E i \in DOMAIN q : q[i] = YearStr(year) /\ WordBoundaryAround(q, i)

\* C30 as stated: local_score and web_score count the terms of the two
\* keyword sets found in the lower-cased query; web_score gets +2 once when
\* latest, current, today or recent is found, and +3 once when the query has
\* a four-digit year token equal to the current or the next year, and no
\* bonus for anything else
C30_RouterScores ==
    RouteReturned
      => LET q == Lower(last.query)
             bonus2 == IF \E t \in {"latest", "current", "today", "recent"} :
                            \E i \in DOMAIN q : q[i] = t
                       THEN 2 ELSE 0
             bonus3 == IF HasYearToken(q, Routed.year)
                            \/ HasYearToken(q, Routed.year + 1)
                       THEN 3 ELSE 0
         IN /\ Routed.local_score
                 = Cardinality({k \in local_keywords : Contains(q, k)})
            /\ Routed.web_score
                 = Cardinality({k \in web_keywords : Contains(q, k)}) + bonus2 + bonus3

----------------------------------------------------------------------------
(* The lookup of get: one candidate, the live threshold, the frame; checked
   under Spec *)

\* the similarity of a row of the table to a query text
RowSimilarity(c, k, q) == Similarity(c[k].query_embedding, Encode(q))

\* C31: get examines the single most similar row at or above the threshold;
\* when the guard rejects that row, get returns a miss, also when another row
\* at or above the threshold names the same years as the query
C31_OnlyBestCandidate ==
    /\ (GetReturned /\ last.candidate # NoKey)
         => \A k \in DOMAIN cache :
               SimGE(RowSimilarity(cache, last.candidate, last.query),
                     RowSimilarity(cache, k, last.query))
    /\ (GetReturned /\ last.candidate # NoKey
          /\ GuardRejects(last.query, cache[last.candidate].query))
         => (~last.hit /\ last.response = None /\ last.matched = NoKey)

\* the best row was rejected and get returned a miss, while another row at or
\* above the threshold names the years of the query
C31_Witness ==
    /\ GetReturned /\ ~last.hit /\ last.candidate # NoKey
    /\ GuardRejects(last.query, cache[last.candidate].query)
    /\ \E k \in DOMAIN cache \ {last.candidate} :
         /\ AtLeastThreshold(RowSimilarity(cache, k, last.query), similarity_threshold)
         /\ YearsIn(cache[k].query) = YearsIn(last.query)
         /\ YearsIn(last.query) # {}

\* C32: get uses the threshold of the moment of the call: the row it examines
\* is a row of maximal similarity among those at or above that threshold (none:
\* a miss), and a hit is that row; moving the threshold changes no row
C32_LiveThreshold ==
    [][ /\ last'.op = "set_threshold" => cache' = cache
        /\ GetReturned'
             => LET q == last'.query
                    above == {k \in DOMAIN cache :
                                AtLeastThreshold(RowSimilarity(cache, k, q),
                                                 similarity_threshold)}
                IN /\ last'.candidate = NoKey <=> above = {}
                   /\ last'.candidate # NoKey
                        => /\ last'.candidate \in above
                           /\ \A k \in above :
                                 SimGE(RowSimilarity(cache, last'.candidate, q),
                                       RowSimilarity(cache, k, q))
                   /\ last'.candidate = NoKey => ~last'.hit
                   /\ last'.hit => last'.matched = last'.candidate ]_vars

\* with the threshold moved down to 0.80, get served a row that is below 0.98
C32_Witness ==
    /\ GetReturned /\ last.hit
    /\ similarity_threshold = 80
    /\ ~AtLeastThreshold(RowSimilarity(cache, last.matched, last.query), 98)
    /\ AtLeastThreshold(RowSimilarity(cache, last.matched, last.query), 80)

\* C33: a get that returns a miss leaves every row as it was; a get that
\* returns a hit adds exactly 1 to the hit_count of the matched row and leaves
\* everything else as it was
C33_GetFrame ==
    [][ GetReturned'
          => IF last'.hit
             THEN /\ last'.matched \in DOMAIN cache
                  /\ cache' = [cache EXCEPT ![last'.matched].hit_count = @ + 1]
             ELSE cache' = cache ]_vars

\* a miss by the guard on a row that had served hits, beside another row
C33_Witness ==
    /\ GetReturned /\ ~last.hit /\ last.candidate # NoKey
    /\ cache[last.candidate].hit_count >= 2
    /\ Cardinality(DOMAIN cache) = 2

----------------------------------------------------------------------------
(* Requests that follow one another on the same cache, checked under
   SpecSearch *)

\* this step is a search of the text whose search, the step before, returned
\* from a cache miss
RepeatedSearch ==
    /\ SearchMissed
    /\ last'.op = "search" /\ ~last'.raised
    /\ last'.query = last.query

\* the answer of the first request is served by the second: a hit, that very
\* answer, no call but cache.get, and the row's hit_count at 2
ServedFromFirst ==
    /\ last'.envelope.cache_hit
    /\ last'.envelope.answer = last.envelope.answer
    /\ Len(last'.calls) = 1 /\ last'.calls[1].fn = "cache.get"
    /\ cache'[QueryHash(last.query)].hit_count = 2

\* C34: a search of q that returns right after a search of q that missed (no
\* other call in between) is a cache hit with the answer of the first, calls
\* neither retriever, web searcher nor generator, and leaves the row's
\* hit_count at 2, whatever allow_web_search is in the two calls
C34_RepeatedSearch ==
    [][ RepeatedSearch => ServedFromFirst ]_vars

\* a second search of the latest text, served from its row beside another row
C34_Witness ==
    /\ SearchReturned /\ last.envelope.cache_hit
    /\ lastPutKey = QueryHash(last.query)
    /\ cache[lastPutKey].query = last.query
    /\ hitsSincePut = 1 /\ cache[lastPutKey].hit_count = 2
    /\ last.envelope.answer = cache[lastPutKey].response
    /\ Cardinality(DOMAIN cache) = 2

\* the answers of the tiers below the providers
DegradedAnswers == {NoInformation, "key facts answer", "key facts answer from web"}

\* C35: a search that returns from a cache miss has written its answer,
\* whichever tier made it, as the response of the row of its query; a search
\* that returns from a cache hit gives the stored response of the matched row,
\* whatever the generation provider would do now
C35_EveryAnswerCached ==
    [][ /\ SearchMissed'
             => LET key == QueryHash(last'.query)
                IN /\ key \in DOMAIN cache'
                   /\ cache'[key].query = last'.query
                   /\ cache'[key].response = last'.envelope.answer
        /\ (SearchReturned' /\ last'.hit)
             => /\ last'.matched \in DOMAIN cache
                /\ last'.envelope.answer = cache[last'.matched].response ]_vars

\* the fixed no-information message came back as a cache hit
C35_Witness ==
    /\ SearchReturned /\ last.envelope.cache_hit
    /\ last.envelope.answer = NoInformation
    /\ cache[last.matched].hit_count >= 2

\* the heuristic answer was written to the cache
C35_WitnessHeuristic ==
    /\ SearchMissed
    /\ Called("_generate_enhanced_mock_answer")
    /\ last.envelope.answer \in DegradedAnswers
    /\ cache[QueryHash(last.query)].response = last.envelope.answer

\* the answers made of a context that holds web-search results
WebAnswers ==
    { "gpt-4.1 answer from web", "gpt-3.5-turbo answer from web",
      "key facts answer from web" }

\* C36 as stated: a search with allow_web_search = false never returns an
\* answer that was made from web-search results, whatever searches came before
C36_NoWebAnswerWhenDisallowed ==
    (SearchReturned /\ ~last.allow_web) => last.envelope.answer \notin WebAnswers

\* C37: web_search_used is true exactly when the web searcher was called
\* during the request, and in the envelope of a cache miss web_results is null
\* exactly when it was not called, also when the provider failed and the mock
\* fallback text was returned
C37_WebSearchUsedFlag ==
    SearchReturned
      => /\ last.envelope.web_search_used <=> Called("web_searcher.search")
         /\ ~last.envelope.cache_hit
              => (last.envelope.web_results = None <=> ~Called("web_searcher.search"))

\* the provider failed, the mock fallback text is in the envelope and the
\* flag is true
C37_Witness ==
    /\ SearchMissed /\ Called("web_searcher.search")
    /\ last.envelope.web_results = "mock: Apple"
    /\ last.envelope.web_search_used

----------------------------------------------------------------------------
(* Overlapping calls of the cache, checked under SpecOverlap *)

\* the two calls under way are of this operation and both have returned
BothReturned(op) ==
    \A t \in Sessions :
        in_flight.calls[t].op = op /\ in_flight.calls[t].pc = "returned"

\* C38: after two overlapping put calls of the same normalized query have
\* both returned, the row of that query_hash has hit_count 1, and its query
\* text, embedding and response are those of one of the two calls, never a
\* mix of the two
C38_LastWriteWins ==
    (BothReturned("put")
       /\ QueryHash(in_flight.calls[1].query) = QueryHash(in_flight.calls[2].query))
      => LET key == QueryHash(in_flight.calls[1].query)
         IN /\ key \in DOMAIN cache
            /\ cache[key].hit_count = 1
            /\ \E t \in Sessions :
                 cache[key] = CacheEntry(in_flight.calls[t].query,
                                         Encode(in_flight.calls[t].query),
                                         in_flight.calls[t].arg)

\* two puts of the same normalized query with different texts and different
\* responses returned, over a row that had served a hit
C38_Witness ==
    /\ BothReturned("put")
    /\ QueryHash(in_flight.calls[1].query) = QueryHash(in_flight.calls[2].query)
    /\ in_flight.calls[1].query # in_flight.calls[2].query
    /\ in_flight.calls[1].arg # in_flight.calls[2].arg
    /\ QueryHash(in_flight.calls[1].query) \in DOMAIN in_flight.before
    /\ in_flight.before[QueryHash(in_flight.calls[1].query)].hit_count >= 2
    /\ cache[QueryHash(in_flight.calls[1].query)].hit_count = 1

\* C39 as stated: when two overlapping get calls match the same row and both
\* return hit = true, the row's hit_count ends exactly 2 higher than it was,
\* and total_hits of get_stats 2 higher
C39_BothHitsCounted ==
    (BothReturned("get")
       /\ in_flight.calls[1].hit /\ in_flight.calls[2].hit
       /\ in_flight.calls[1].match.query_hash = in_flight.calls[2].match.query_hash)
      => LET key == in_flight.calls[1].match.query_hash
         IN /\ cache[key].hit_count = in_flight.before[key].hit_count + 2
            /\ CacheStats(cache).total_hits
                 = CacheStats(in_flight.before).total_hits + 2

====
